---- MODULE Spec2Model ----
(***************************************************************************)
(* Bobber Customizer API (src/main.py): a static option catalog, the       *)
(* pricing handler calculate_price, the build-finalization handler         *)
(* save_build and the catalog read get_options.                            *)
(*                                                                         *)
(* Prices are whole numbers in the source (9800.0 plus integer deltas), so *)
(* float addition is exact and the model uses integers.  An Optional value *)
(* is a sequence of length at most one: <<>> is None, <<v>> is v.  A text  *)
(* built by an f-string is the sequence of its fragments.                  *)
(***************************************************************************)
EXTENDS Integers, Sequences, FiniteSets, TLC

VARIABLES
    catalog,      \* the module-level dict CATALOG (a mutable Python object)
    base_price,   \* the module-level binding BASE_PRICE
    db,           \* the document store behind create_document, per collection
    request,      \* the request the server handled last
    response,     \* the response it gave
    storeCalls    \* the create_document calls made while handling it

vars == <<catalog, base_price, db, request, response, storeCalls>>

(***************************************************************************)
(* Static data                                                             *)
(***************************************************************************)
BASE_PRICE == 9800

CATALOG ==
    [color   |-> ("Matte Black" :> 0) @@ ("Gunmetal" :> 120) @@ ("Pearl White" :> 220)
                 @@ ("Crimson" :> 180) @@ ("Olive Drab" :> 150),
     seat    |-> ("Solo Minimal" :> 0) @@ ("Diamond Stitch" :> 260) @@ ("Brown Vintage" :> 180),
     bars    |-> ("Low Drag" :> 0) @@ ("Clip-ons" :> 320) @@ ("Mini Ape" :> 240),
     exhaust |-> ("Stock" :> 0) @@ ("Shorty" :> 420) @@ ("Slash-Cut" :> 520),
     tires   |-> ("Street" :> 0) @@ ("Semi-Slick" :> 180) @@ ("Whitewall" :> 260)]

THUMBNAILS ==
    [color   |-> ("Matte Black" :> "https://img.shields.io/badge/Matte%20Black-000000.svg?style=for-the-badge")
                 @@ ("Gunmetal" :> "https://img.shields.io/badge/Gunmetal-2f2f2f.svg?style=for-the-badge")
                 @@ ("Pearl White" :> "https://img.shields.io/badge/Pearl%20White-f8fafc.svg?style=for-the-badge")
                 @@ ("Crimson" :> "https://img.shields.io/badge/Crimson-dc2626.svg?style=for-the-badge")
                 @@ ("Olive Drab" :> "https://img.shields.io/badge/Olive%20Drab-374151.svg?style=for-the-badge"),
     seat    |-> ("Solo Minimal" :> "https://img.shields.io/badge/Solo%20Minimal-111827.svg?style=for-the-badge")
                 @@ ("Diamond Stitch" :> "https://img.shields.io/badge/Diamond%20Stitch-1f2937.svg?style=for-the-badge")
                 @@ ("Brown Vintage" :> "https://img.shields.io/badge/Brown%20Vintage-92400e.svg?style=for-the-badge"),
     bars    |-> ("Low Drag" :> "https://img.shields.io/badge/Low%20Drag-0f172a.svg?style=for-the-badge")
                 @@ ("Clip-ons" :> "https://img.shields.io/badge/Clip--ons-0f172a.svg?style=for-the-badge")
                 @@ ("Mini Ape" :> "https://img.shields.io/badge/Mini%20Ape-0f172a.svg?style=for-the-badge"),
     exhaust |-> ("Stock" :> "https://img.shields.io/badge/Stock-0f172a.svg?style=for-the-badge")
                 @@ ("Shorty" :> "https://img.shields.io/badge/Shorty-0f172a.svg?style=for-the-badge")
                 @@ ("Slash-Cut" :> "https://img.shields.io/badge/Slash--Cut-0f172a.svg?style=for-the-badge"),
     tires   |-> ("Street" :> "https://img.shields.io/badge/Street-0f172a.svg?style=for-the-badge")
                 @@ ("Semi-Slick" :> "https://img.shields.io/badge/Semi--Slick-0f172a.svg?style=for-the-badge")
                 @@ ("Whitewall" :> "https://img.shields.io/badge/Whitewall-0f172a.svg?style=for-the-badge")]

ACCENT_COLORS ==
    ("Matte Black" :> "#0b0f19") @@ ("Gunmetal" :> "#2f3136") @@ ("Pearl White" :> "#f1f5f9")
    @@ ("Crimson" :> "#dc2626") @@ ("Olive Drab" :> "#374151")

\* The five fields of Selection, in the order calculate_price looks them up.
LookupOrderReversed == <<"tires", "exhaust", "bars", "seat", "color">>

LookupOrder == <<"color", "seat", "bars", "exhaust", "tires">>

Categories == {"color", "seat", "bars", "exhaust", "tires"}

(***************************************************************************)
(* Python helpers                                                          *)
(***************************************************************************)
None == <<>>

Some(v) == <<v>>

\* d.get(k, default)
dict_get(d, k, default) == IF k \in DOMAIN d THEN d[k] ELSE default

\* sum(d.values())
RECURSIVE SumOver(_, _)
SumOver(d, keys) ==
    IF keys = {} THEN 0
    ELSE LET k == CHOOSE x \in keys : TRUE IN d[k] + SumOver(d, keys \ {k})

SumValues(d) == SumOver(d, DOMAIN d)

\* str(KeyError(k)) is repr(k): the key between single quotes
KeyErrorStr(k) == <<"'", k, "'">>

(***************************************************************************)
(* calculate_price                                                         *)
(***************************************************************************)
\* CATALOG[c][label]: the value, or KeyError(label)
SubscriptFalsy(d, k) ==
    IF k \in DOMAIN d /\ d[k] # 0 THEN [raised |-> FALSE, value |-> d[k]]
    ELSE [raised |-> TRUE, key |-> k]

SubscriptDefaulting(d, k) ==
    [raised |-> FALSE, value |-> dict_get(d, k, 0)]

Subscript(d, k) ==
    IF k \in DOMAIN d THEN [raised |-> FALSE, value |-> d[k]]
    ELSE [raised |-> TRUE, key |-> k]

\* The try block: one subscript per category, in order; the first KeyError
\* leaves the block and the remaining lookups are not made.
RECURSIVE price_lookups(_, _, _, _)
price_lookups(selection, cat, i, addons) ==
    IF i > Len(LookupOrder) THEN [raised |-> FALSE, addons |-> addons]
    ELSE LET c == LookupOrder[i]
             r == Subscript(cat[c], selection[c])
         IN  IF r.raised THEN [raised |-> TRUE, key |-> r.key]
             ELSE price_lookups(selection, cat, i + 1, (c :> r.value) @@ addons)

\* total = BASE_PRICE + sum(addons.values())
price_total_dropping_tires(base, addons) ==
    base + SumOver(addons, DOMAIN addons \ {"tires"})

price_total(base, addons) == base + SumValues(addons)

calculate_price(selection, cat, base) ==
    LET r == price_lookups(selection, cat, 1, <<>>) IN
    IF r.raised
    THEN [status |-> 400, detail |-> <<"Invalid selection: ">> \o KeyErrorStr(r.key)]
    ELSE [status |-> 200,
          body |-> [base_price |-> base, addons |-> r.addons,
                    total |-> price_total(base, r.addons), currency |-> "USD"]]

\* What calculate_price writes: nothing.  It reads CATALOG by subscript and
\* never calls create_document.
calculate_price_catalog_popping(cat, selection) ==
    IF selection.color \in DOMAIN cat.color
    THEN [cat EXCEPT !.color = [k \in DOMAIN cat.color \ {selection.color} |-> cat.color[k]]]
    ELSE cat

calculate_price_catalog(cat, selection) == cat

calculate_price_calls_logging(selection) ==
    <<[collection |-> "build", document |-> selection, ok |-> TRUE]>>

calculate_price_calls(selection) == <<>>

(***************************************************************************)
(* The document store (module database, imported by main.py)               *)
(***************************************************************************)
\* create_document(collection, doc): stores the document and returns its
\* identifier, or raises on any backend problem.
create_document(collection, doc, store, ok) ==
    IF ok
    THEN LET id == Len(store[collection]) + 1 IN
         [raised |-> FALSE, id |-> id,
          db |-> [store EXCEPT ![collection] = Append(@, [id |-> id, document |-> doc])]]
    ELSE [raised |-> TRUE, error |-> "storage error", db |-> store]

\* The store after a sequence of create_document calls.
RECURSIVE Perform(_, _)
Perform(store, calls) ==
    IF calls = <<>> THEN store
    ELSE Perform(create_document(calls[1].collection, calls[1].document, store, calls[1].ok).db,
                 Tail(calls))

(***************************************************************************)
(* save_build                                                              *)
(***************************************************************************)
\* addons: CATALOG[c].get(payload.c, 0) for the five categories
save_build_addons(payload, cat) ==
    [c \in Categories |-> dict_get(cat[c], payload[c], 0)]

\* .get does not write; CATALOG is left as it is
save_build_catalog_setdefault(cat, payload) ==
    [c \in Categories |->
        IF payload[c] \in DOMAIN cat[c] THEN cat[c] ELSE (payload[c] :> 0) @@ cat[c]]

save_build_catalog(cat, payload) == cat

\* "total": total in doc; payload.total is not read
doc_total(payload, total) == total

save_build_doc(payload, cat, base) ==
    LET total == base + SumValues(save_build_addons(payload, cat)) IN
    [color |-> payload.color, seat |-> payload.seat, bars |-> payload.bars,
     exhaust |-> payload.exhaust, tires |-> payload.tires,
     total |-> doc_total(payload, total), currency |-> payload.currency,
     created_by |-> payload.created_by, notes |-> payload.notes]

\* The create_document calls of one request: a single call in a try block,
\* whose except clause raises HTTPException(500).
save_build_calls_retrying(doc, ok) ==
    IF ok THEN <<[collection |-> "build", document |-> doc, ok |-> ok]>>
    ELSE <<[collection |-> "build", document |-> doc, ok |-> ok],
           [collection |-> "build", document |-> doc, ok |-> ok]>>

save_build_calls(doc, ok) == <<[collection |-> "build", document |-> doc, ok |-> ok]>>

\* The response: {"ok": True, "id": inserted_id, "total": total}, or 500.
save_build_response(payload, cat, base, store, ok) ==
    LET total == base + SumValues(save_build_addons(payload, cat))
        r     == create_document("build", save_build_doc(payload, cat, base), store, ok)
    IN  IF r.raised
        THEN [status |-> 500, detail |-> <<"Database error: ", r.error>>]
        ELSE [status |-> 200, body |-> [ok |-> TRUE, id |-> r.id, total |-> total]]

(***************************************************************************)
(* get_options                                                             *)
(***************************************************************************)
get_options(cat, base) ==
    [status |-> 200,
     body |-> [base_price |-> base, options |-> cat,
               thumbnails |-> THUMBNAILS, accents |-> ACCENT_COLORS]]

(***************************************************************************)
(* Inputs                                                                  *)
(***************************************************************************)
MaxBuilds == 1    \* documents the store holds before save_build is no longer called
NumBogus  == 2    \* labels outside a category's catalog tried in each category

\* "Stock" is an exhaust option: a label of the wrong category.
BogusLabels == <<"Neon Pink", "Stock", "matte black", "">>

Bogus == {BogusLabels[i] : i \in 1..NumBogus}

\* Every selection over the whole catalog plus the bogus labels.
Selections ==
    [color   : DOMAIN CATALOG.color   \cup Bogus,
     seat    : DOMAIN CATALOG.seat    \cup Bogus,
     bars    : DOMAIN CATALOG.bars    \cup Bogus,
     exhaust : DOMAIN CATALOG.exhaust \cup Bogus,
     tires   : DOMAIN CATALOG.tires   \cup Bogus]

\* The selections the server is sent in a run of many requests.
Submissions ==
    [color   : {"Matte Black", "Pearl White", "Neon Pink"},
     seat    : {"Diamond Stitch", "Neon Pink"},
     bars    : {"Clip-ons", "Neon Pink"},
     exhaust : {"Slash-Cut", "Neon Pink"},
     tires   : {"Whitewall", "Neon Pink"}]

ClientTotals == {None, Some(1)}

SaveBuildRequests ==
    {[color |-> s.color, seat |-> s.seat, bars |-> s.bars, exhaust |-> s.exhaust,
      tires |-> s.tires, total |-> t, currency |-> "USD", created_by |-> None,
      notes |-> None] : s \in Submissions, t \in ClientTotals}

NoRequest == [op |-> "none"]

NoResponse == [status |-> 0]

(***************************************************************************)
(* The server                                                              *)
(***************************************************************************)
Init ==
    /\ catalog = CATALOG
    /\ base_price = BASE_PRICE
    /\ db = [build |-> <<>>]
    /\ request = NoRequest
    /\ response = NoResponse
    /\ storeCalls = <<>>

\* POST /api/price
Price(selection) ==
    /\ request' = [op |-> "price", selection |-> selection]
    /\ response' = calculate_price(selection, catalog, base_price)
    /\ catalog' = calculate_price_catalog(catalog, selection)
    /\ storeCalls' = calculate_price_calls(selection)
    /\ db' = Perform(db, storeCalls')
    /\ UNCHANGED base_price

CalculatePrice == \E selection \in Submissions : Price(selection)

\* POST /api/builds
SaveBuild ==
    /\ Len(db.build) < MaxBuilds
    /\ \E payload \in SaveBuildRequests, ok \in BOOLEAN :
        /\ request' = [op |-> "save", payload |-> payload]
        /\ storeCalls' = save_build_calls(save_build_doc(payload, catalog, base_price), ok)
        /\ db' = Perform(db, storeCalls')
        /\ response' = save_build_response(payload, catalog, base_price, db, ok)
        /\ catalog' = save_build_catalog(catalog, payload)
        /\ UNCHANGED base_price

\* GET /api/options
GetOptions ==
    /\ request' = [op |-> "options"]
    /\ response' = get_options(catalog, base_price)
    /\ storeCalls' = <<>>
    /\ UNCHANGED <<catalog, base_price, db>>

Next == CalculatePrice \/ SaveBuild \/ GetOptions

Spec == Init /\ [][Next]_vars

(***************************************************************************)
(* One pricing request, for any selection                                  *)
(***************************************************************************)
InitPrice ==
    /\ catalog = CATALOG
    /\ base_price = BASE_PRICE
    /\ db = [build |-> <<>>]
    /\ request \in {[op |-> "price", selection |-> s] : s \in Selections}
    /\ response = NoResponse
    /\ storeCalls = <<>>

PriceSelected ==
    /\ request.op = "price"
    /\ response = NoResponse
    /\ Price(request.selection)

NextPrice == PriceSelected

SpecPrice == InitPrice /\ [][NextPrice]_vars

(***************************************************************************)
(* Properties                                                              *)
(***************************************************************************)
StatedOrder == <<"color", "seat", "bars", "exhaust", "tires">>

Present(c, label) == label \in DOMAIN CATALOG[c]

AllPresent(sel) == \A c \in Categories : Present(c, sel[c])

AbsentAt(sel) == {i \in 1..Len(StatedOrder) : ~Present(StatedOrder[i], sel[StatedOrder[i]])}

FirstAbsent(sel) ==
    StatedOrder[CHOOSE i \in AbsentAt(sel) : \A j \in AbsentAt(sel) : i <= j]

Mentions(text, s) == \E i \in 1..Len(text) : text[i] = s

Priced == request.op = "price" /\ response # NoResponse

SelectionOf(payload) == [c \in Categories |-> payload[c]]

\* C1: a selection whose five labels are all catalog keys is priced
\* successfully, and addons[c] is exactly the catalog delta of the label
\* chosen for c, a delta of 0 included.
C1_PresentLabelsPriced ==
    (Priced /\ AllPresent(request.selection)) =>
        /\ response.status = 200
        /\ DOMAIN response.body.addons = Categories
        /\ \A c \in Categories :
              response.body.addons[c] = CATALOG[c][request.selection[c]]

C1_Witness ==
    /\ Priced
    /\ request.selection.color = "Matte Black"
    /\ request.selection.exhaust = "Slash-Cut"
    /\ response.status = 200
    /\ response.body.addons.color = 0
    /\ response.body.addons.exhaust = 520

C3_InvalidBuildRejected ==
    (request.op = "save" /\ ~AllPresent(SelectionOf(request.payload))) =>
        /\ response.status = 400
        /\ storeCalls = <<>>

\* C4: the total in the document handed to create_document and the total
\* returned to the caller are the total that pricing computes for the same
\* selection, whatever total the caller supplied.
C4_StoredTotalIsPricedTotal ==
    request.op = "save" =>
        LET quote == calculate_price(SelectionOf(request.payload), CATALOG, BASE_PRICE) IN
        /\ \A i \in 1..Len(storeCalls) :
              /\ quote.status = 200
              /\ storeCalls[i].document.total = quote.body.total
        /\ response.status = 200 =>
              /\ quote.status = 200
              /\ response.body.total = quote.body.total

\* C5: a successful quote has total = base_price + the five addons of that
\* quote, and its base_price is BASE_PRICE.
C5_TotalIsBasePlusAddons ==
    (Priced /\ response.status = 200) =>
        LET q == response.body IN
        /\ q.base_price = BASE_PRICE
        /\ q.total = q.base_price + q.addons.color + q.addons.seat + q.addons.bars
                        + q.addons.exhaust + q.addons.tires

C5_Witness ==
    /\ Priced
    /\ request.selection = [color |-> "Pearl White", seat |-> "Diamond Stitch",
                            bars |-> "Clip-ons", exhaust |-> "Slash-Cut",
                            tires |-> "Whitewall"]
    /\ response.status = 200
    /\ response.body.total = 11380

\* C6: save_build calls create_document at most once, on collection
\* "build"; when the call succeeds the response carries the identifier the
\* store assigned and the total written into the stored document; when it
\* fails the response is a 500 error without identifier and the call is not
\* made again.
C6_StoreOnceAndReport ==
    request.op = "save" =>
        /\ Len(storeCalls) <= 1
        /\ \A i \in 1..Len(storeCalls) :
              LET call == storeCalls[i] IN
              /\ call.collection = "build"
              /\ call.ok =>
                    /\ response.status = 200
                    /\ response.body.ok
                    /\ db.build # <<>>
                    /\ response.body.id = db.build[Len(db.build)].id
                    /\ db.build[Len(db.build)].document = call.document
                    /\ response.body.total = call.document.total
              /\ ~call.ok =>
                    /\ response.status = 500
                    /\ "body" \notin DOMAIN response
                    /\ Len(storeCalls) = 1

C6_Witness ==
    /\ request.op = "save"
    /\ request.payload.total = Some(1)
    /\ Len(storeCalls) = 1
    /\ storeCalls[1].ok
    /\ response.status = 200
    /\ response.body.total = 11380
    /\ db.build[Len(db.build)].document.total = 11380

\* C7: the outcome of pricing a selection is the outcome the freshly started
\* server gives for it, whatever requests were handled before.
C7_PricingIgnoresHistory ==
    request.op = "price" =>
        response = calculate_price(request.selection, CATALOG, BASE_PRICE)

C7_Witness ==
    /\ request.op = "price"
    /\ request.selection.color = "Neon Pink"
    /\ response.status = 400
    /\ db.build # <<>>
    /\ db.build[1].document.color = "Neon Pink"

\* C8: CATALOG and BASE_PRICE are what they were at startup after any
\* sequence of requests, and get_options returns them.
C8_CatalogUnchanged ==
    /\ catalog = CATALOG
    /\ base_price = BASE_PRICE
    /\ request.op = "options" =>
          /\ response.body.options = CATALOG
          /\ response.body.base_price = BASE_PRICE

C8_Witness ==
    /\ request.op = "options"
    /\ response.body.options = CATALOG
    /\ db.build # <<>>
    /\ db.build[1].document.seat = "Neon Pink"

\* C9: with labels absent in two or more categories, the one error reported
\* carries the label of the earliest such category in the order color,
\* seat, bars, exhaust, tires, and no differing label of a later category.
C9_FirstAbsentReported ==
    (Priced /\ Cardinality(AbsentAt(request.selection)) >= 2) =>
        LET first == FirstAbsent(request.selection) IN
        /\ response.status = 400
        /\ response.detail = <<"Invalid selection: ", "'", request.selection[first], "'">>
        /\ \A i \in AbsentAt(request.selection) :
              request.selection[StatedOrder[i]] # request.selection[first]
                  => ~Mentions(response.detail, request.selection[StatedOrder[i]])

C9_Witness ==
    /\ Priced
    /\ request.selection.color = "Stock"
    /\ request.selection.seat = "Neon Pink"
    /\ request.selection.tires = "Neon Pink"
    /\ response.status = 400
    /\ Mentions(response.detail, "Stock")
    /\ ~Mentions(response.detail, "Neon Pink")

\* C10: a pricing request makes no create_document call and leaves the
\* store as it was; the store changes only in a save_build request.
C10_PricingLeavesStore ==
    [][/\ request'.op = "price" => (storeCalls' = <<>> /\ db' = db)
       /\ db' # db => request'.op = "save"]_vars

C10_Witness ==
    /\ request.op = "price"
    /\ storeCalls = <<>>
    /\ Len(db.build) = 1

====
